---- MODULE Spec2Model ----
(***************************************************************************)
(* Model of pan_ssh_ciphers.py: the sequential audit / remediate /         *)
(* restart workflow of main() against one firewall.  The device is the     *)
(* environment: every call on it either returns or raises, and the         *)
(* candidate configuration of each service is a set of cipher tokens.      *)
(***************************************************************************)
EXTENDS Integers, Sequences, FiniteSets, TLC

(* ------------------------------ bounds -------------------------------- *)
\* how many leading ciphers of cipher_list may be absent from a service's
\* configuration at the start of a run
MaxRemovable == 2
\* how many add-cipher writes of one run the device may answer with a
\* non-success status without raising
MaxRejects == 1
\* how many reconnection attempts of one recovery poll the device may refuse
MaxFailures == 2

(* ------------------------- program constants -------------------------- *)
\* main, line 249
service_list_reversed == <<"ha", "mgmt">>

service_list == <<"mgmt", "ha">>

\* main, lines 250-251
DesiredCiphers == <<"aes128-cbc", "aes192-cbc", "aes256-cbc", "aes128-ctr",
                    "aes192-ctr", "aes256-ctr", "aes128-gcm", "aes256-gcm">>

\* check_device_up, lines 223 and 232: time.sleep(60)
SleepSeconds == 60

\* names bound in the module namespace by the import statements
ModuleNames == {"sys", "time", "config", "base", "firewall", "errors"}

(* ------------------------------ helpers ------------------------------- *)
Range(s) == {s[i] : i \in 1..Len(s)}

RECURSIVE SetToSeq(_)
SetToSeq(S) == IF S = {} THEN <<>>
               ELSE LET x == CHOOSE y \in S : TRUE
                    IN  <<x>> \o SetToSeq(S \ {x})

\* all orders in which the elements of S can be listed
Orderings(S) == {q \in [1..Cardinality(S) -> S] : Range(q) = S}

\* a cipher the device knows that is outside the desired policy
OtherCipher == "3des-cbc"

Universe == Range(DesiredCiphers) \cup {OtherCipher}

Removable == {DesiredCiphers[i] : i \in 1..MaxRemovable}

\* configurations a service can have when the run starts
InitialConfigs ==
    {Universe \ M : M \in SUBSET Removable} \cup {Range(DesiredCiphers), {}}

Services == Range(service_list)

NoError == [type |-> "none", at |-> "none", cause |-> "none"]

VARIABLES runs, pc, svc, ci, cipher_list, found, fw, handles, set_ciphers_list, results_list, status,
          config, initial, ops, attempts, failures, rejects, error, exitCode

vars == <<runs, pc, svc, ci, cipher_list, found, fw, handles, set_ciphers_list, results_list, status,
          config, initial, ops, attempts, failures, rejects, error, exitCode>>

\* one device operation or sleep, as issued by the program
Op(name, service, arg, handle, res) ==
    [op |-> name, svc |-> service, arg |-> arg, fw |-> handle, res |-> res]

(* --------------------------- pure functions --------------------------- *)
\* compare_ciphers, lines 103-110: set(cipher_list).issubset(set_ciphers_list)
compare_status_any(cl, scl) ==
    IF Range(cl) \cap Range(scl) # {} THEN "ciphers_set" ELSE "ciphers_not_set"

compare_status_equal(cl, scl) ==
    IF Range(cl) = Range(scl) THEN "ciphers_set" ELSE "ciphers_not_set"

compare_status(cl, scl) ==
    IF \A c \in Range(cl) : c \in Range(scl)
    THEN "ciphers_set" ELSE "ciphers_not_set"

\* set_ciphers, line 130: the ciphers the loop writes, in order
WriteTargets_missing(cl) == SelectSeq(cl, LAMBDA c : c \notin Range(set_ciphers_list))

WriteTargets_butlast(cl) == SubSeq(cl, 1, Len(cl) - 1)

WriteTargets(cl) == cl

\* fw.xapi.set, line 134: the subtree after an accepted add of one element
ApplySet_replace(cfg, cipher) == {cipher}

ApplySet(cfg, cipher) == cfg \cup {cipher}

\* main, line 259: the test that starts a remediation
ShouldRemediate_any(st) ==
    st = "ciphers_not_set" \/ "ciphers_not_set" \in Range(results_list)

ShouldRemediate(st) == st = "ciphers_not_set"

\* main, line 263: fw = check_device_up()
Reacquire_keep(old, new) == old

Reacquire(old, new) == new

\* main, lines 260-263: the calls made for a service found 'ciphers_not_set'
RemediationSteps_swapped ==
    <<"set_ciphers", "restart_service", "commit_config", "check_device_up">>

RemediationSteps_nocommit ==
    <<"set_ciphers", "restart_service", "check_device_up">>

RemediationSteps ==
    <<"set_ciphers", "commit_config", "restart_service", "check_device_up">>

\* main, line 267
NeedsSystemRestart_last(rl) == rl[Len(rl)] = "ciphers_not_set"

NeedsSystemRestart(rl) == "ciphers_not_set" \in Range(rl)

\* sys.exit(arg): the process exit status for an argument
ExitStatus_failure(arg) == 1

ExitStatus(arg) ==
    CASE arg.kind = "none" -> 0
      [] arg.kind = "int"  -> arg.val % 256
      [] OTHER             -> 1

\* what happens to an exception raised inside the named function
Handling_swallow(at) ==
    IF at \in {"set_ciphers", "commit_config", "restart_service"} THEN "continue"
    ELSE IF at = "restart_system" THEN "sys_exit"
    ELSE IF at = "check_device_up"
         THEN IF "pandevice" \in ModuleNames THEN "match" ELSE "NameError"
    ELSE "propagate"

Handling(at) ==
    IF at = "restart_system" THEN "sys_exit"
    ELSE IF at = "check_device_up"
         THEN IF "pandevice" \in ModuleNames THEN "match" ELSE "NameError"
    ELSE "propagate"

(* ------------------------------ control ------------------------------- *)
Service == service_list[svc]

\* an exception nobody catches: traceback, exit status 1
Abort(at, type, cause) ==
    /\ pc' = "aborted"
    /\ error' = [type |-> type, at |-> at, cause |-> cause]
    /\ exitCode' = 1

\* main, line 254: the next iteration of the loop over service_list, or the
\* statement after the loop
NextService ==
    IF svc < Len(service_list)
    THEN pc' = "check_ciphers" /\ svc' = svc + 1
    ELSE pc' = "dedup" /\ svc' = svc

IndexOf(step) == CHOOSE i \in 1..Len(RemediationSteps) : RemediationSteps[i] = step

\* the statement main reaches when the named remediation call returns
Return(step) ==
    IF IndexOf(step) < Len(RemediationSteps)
    THEN pc' = RemediationSteps[IndexOf(step) + 1] /\ svc' = svc
    ELSE NextService

Init ==
    /\ runs = <<>>
    /\ pc = "get_fw_connection"
    /\ svc = 1
    /\ ci = 1
    /\ cipher_list = DesiredCiphers
    /\ found = [s \in Services |-> "none"]
    /\ fw = 0
    /\ handles = 0
    /\ set_ciphers_list = <<>>
    /\ results_list = <<>>
    /\ status = "none"
    /\ config \in [Services -> InitialConfigs]
    /\ initial = config
    /\ ops = <<>>
    /\ attempts = 0
    /\ failures = 0
    /\ rejects = 0
    /\ error = NoError
    /\ exitCode = -1

(* ------------------------------ actions ------------------------------- *)
\* main, line 247: fw = get_fw_connection()
MainConnect ==
    /\ pc = "get_fw_connection"
    /\ \E outcome \in {"ok", "raise"} :
         /\ ops' = Append(ops, Op("connect", "", "", fw, outcome))
         /\ IF outcome = "ok"
            THEN /\ fw' = handles + 1
                 /\ handles' = handles + 1
                 /\ pc' = "check_ciphers"
                 /\ UNCHANGED <<error, exitCode>>
            ELSE /\ Abort("get_fw_connection", "Error", "none")
                 /\ UNCHANGED <<fw, handles>>
    /\ UNCHANGED <<runs, cipher_list, found, svc, ci, set_ciphers_list, results_list, status, config,
                   initial, attempts, failures, rejects>>

\* check_ciphers, lines 62-75: read the service's subtree, list the tags
CheckCiphers ==
    /\ pc = "check_ciphers"
    /\ \E outcome \in {"ok", "raise"} :
         /\ ops' = Append(ops, Op("get", Service, "", fw, outcome))
         /\ IF outcome = "ok"
            THEN /\ set_ciphers_list' = SetToSeq(config[Service])
                 /\ pc' = "compare_ciphers"
                 /\ UNCHANGED <<error, exitCode>>
            ELSE /\ Abort("check_ciphers", "Error", "none")
                 /\ UNCHANGED set_ciphers_list
    /\ UNCHANGED <<runs, cipher_list, found, svc, ci, fw, handles, results_list, status, config,
                   initial, attempts, failures, rejects>>

\* compare_ciphers, lines 101-112, and the test of main, line 259
CompareCiphers ==
    /\ pc = "compare_ciphers"
    /\ status' = compare_status(cipher_list, set_ciphers_list)
    /\ results_list' = Append(results_list, status')
    /\ found' = [found EXCEPT ![Service] = status']
    /\ IF ShouldRemediate(status')
       THEN pc' = RemediationSteps[1] /\ svc' = svc
       ELSE NextService
    /\ UNCHANGED <<runs, cipher_list, ci, fw, handles, set_ciphers_list, config, initial, ops,
                   attempts, failures, rejects, error, exitCode>>

\* set_ciphers, lines 130-141: one iteration of the loop
SetCiphers ==
    /\ pc = "set_ciphers"
    /\ LET targets == WriteTargets(cipher_list)
           cipher  == targets[ci]
       IN \E outcome \in {"success", "error", "raise"} :
            /\ outcome = "error" => rejects < MaxRejects
            /\ rejects' = IF outcome = "error" THEN rejects + 1 ELSE rejects
            /\ ops' = Append(ops, Op("set", Service, cipher, fw, outcome))
            /\ config' = IF outcome = "success"
                         THEN [config EXCEPT ![Service] = ApplySet(@, cipher)]
                         ELSE config
            /\ IF outcome = "raise" /\ Handling("set_ciphers") = "propagate"
               THEN /\ Abort("set_ciphers", "Error", "none")
                    /\ UNCHANGED <<ci, svc>>
               ELSE /\ UNCHANGED <<error, exitCode>>
                    /\ IF ci < Len(targets)
                       THEN ci' = ci + 1 /\ UNCHANGED <<pc, svc>>
                       ELSE ci' = 1 /\ Return("set_ciphers")
    /\ UNCHANGED <<runs, cipher_list, found, fw, handles, set_ciphers_list, results_list,
                   status, initial, attempts, failures>>

\* commit_config, lines 153-164: synchronous commit
CommitConfig ==
    /\ pc = "commit_config"
    /\ \E outcome \in {"ok", "raise"} :
         /\ ops' = Append(ops, Op("commit", "", "SSH Ciphers Commit", fw, outcome))
         /\ IF outcome = "raise" /\ Handling("commit_config") = "propagate"
            THEN /\ Abort("commit_config", "Error", "none")
                 /\ UNCHANGED svc
            ELSE /\ Return("commit_config")
                 /\ UNCHANGED <<error, exitCode>>
    /\ UNCHANGED <<runs, cipher_list, found, ci, fw, handles, set_ciphers_list, results_list, status,
                   config, initial, attempts, failures, rejects>>

\* restart_service, lines 178-190
RestartService ==
    /\ pc = "restart_service"
    /\ \E outcome \in {"ok", "raise"} :
         /\ ops' = Append(ops, Op("restart_service", Service, "", fw, outcome))
         /\ IF outcome = "raise" /\ Handling("restart_service") = "propagate"
            THEN /\ Abort("restart_service", "Error", "none")
                 /\ UNCHANGED svc
            ELSE /\ Return("restart_service")
                 /\ UNCHANGED <<error, exitCode>>
    /\ UNCHANGED <<runs, cipher_list, found, ci, fw, handles, set_ciphers_list, results_list, status,
                   config, initial, attempts, failures, rejects>>

\* check_device_up, lines 221-224: the grace interval before the loop
CheckDeviceUp ==
    /\ pc = "check_device_up"
    /\ ops' = Append(ops, Op("sleep", "", SleepSeconds, fw, "ok"))
    /\ attempts' = 0
    /\ failures' = 0
    /\ pc' = "connecting"
    /\ UNCHANGED <<runs, cipher_list, found, svc, ci, fw, handles, set_ciphers_list, results_list,
                   status, config, initial, rejects, error, exitCode>>

\* check_device_up, lines 225-237: one iteration of the while loop
Connecting ==
    /\ pc = "connecting"
    /\ \E outcome \in {"up", "PanURLError", "OtherError"} :
         /\ outcome # "up" => failures < MaxFailures
         /\ attempts' = attempts + 1
         /\ IF outcome = "up"
            THEN /\ ops' = Append(ops, Op("connect", "", "", fw, "ok"))
                 /\ fw' = Reacquire(fw, handles + 1)
                 /\ handles' = handles + 1
                 /\ failures' = failures
                 /\ Return("check_device_up")
                 /\ UNCHANGED <<error, exitCode>>
            ELSE /\ failures' = failures + 1
                 /\ UNCHANGED <<fw, handles, svc>>
                 /\ IF Handling("check_device_up") = "NameError"
                    THEN /\ ops' = Append(ops, Op("connect", "", "", fw, outcome))
                         /\ Abort("check_device_up", "NameError", outcome)
                    ELSE IF outcome = "PanURLError"
                    THEN /\ ops' = ops \o <<Op("connect", "", "", fw, outcome),
                                            Op("sleep", "", SleepSeconds, fw, "ok")>>
                         /\ UNCHANGED <<pc, error, exitCode>>
                    ELSE /\ ops' = Append(ops, Op("connect", "", "", fw, outcome))
                         /\ Abort("check_device_up", outcome, "none")
    /\ UNCHANGED <<runs, cipher_list, found, ci, set_ciphers_list, results_list, status, config,
                   initial, rejects>>

\* main, lines 265-267: results_list = list(set(results_list)), then the test
Dedup ==
    /\ pc = "dedup"
    /\ \E q \in Orderings(Range(results_list)) :
         /\ results_list' = q
         /\ IF NeedsSystemRestart(q)
            THEN pc' = "restart_system" /\ UNCHANGED exitCode
            ELSE pc' = "done" /\ exitCode' = 0
    /\ UNCHANGED <<runs, cipher_list, found, svc, ci, fw, handles, set_ciphers_list, status, config,
                   initial, ops, attempts, failures, rejects, error>>

\* restart_system, lines 202-208
RestartSystem ==
    /\ pc = "restart_system"
    /\ \E outcome \in {"ok", "raise"} :
         /\ ops' = Append(ops, Op("restart_system", "", "", fw, outcome))
         /\ IF outcome = "ok"
            THEN pc' = "done" /\ exitCode' = 0
            ELSE IF Handling("restart_system") = "sys_exit"
            THEN pc' = "exited" /\ exitCode' = ExitStatus([kind |-> "none", val |-> 0])
            ELSE pc' = "aborted" /\ exitCode' = 1
    /\ UNCHANGED <<runs, cipher_list, found, svc, ci, fw, handles, set_ciphers_list, results_list,
                   status, config, initial, attempts, failures, rejects, error>>

Next ==
    \/ MainConnect
    \/ CheckCiphers
    \/ CompareCiphers
    \/ SetCiphers
    \/ CommitConfig
    \/ RestartService
    \/ CheckDeviceUp
    \/ Connecting
    \/ Dedup
    \/ RestartSystem

Spec == Init /\ [][Next]_vars

TypeOK ==
    /\ pc \in {"get_fw_connection", "check_ciphers", "compare_ciphers",
               "set_ciphers", "commit_config", "restart_service",
               "check_device_up", "connecting", "dedup", "restart_system",
               "done", "aborted", "exited"}
    /\ svc \in 1..Len(service_list)
    /\ ci \in 1..Len(DesiredCiphers)
    /\ fw \in 0..handles
    /\ config \in [Services -> SUBSET Universe]
    /\ exitCode \in {-1, 0, 1}

(* ------------------- compare_ciphers on arbitrary inputs -------------- *)
\* longest cipher list passed to compare_ciphers
MaxLen == 2

Tokens == {DesiredCiphers[1], DesiredCiphers[2], OtherCipher}

BoundedLists == UNION {[1..n -> Tokens] : n \in 0..MaxLen}

InitCompare ==
    /\ runs = <<>>
    /\ pc = "compare_ciphers"
    /\ svc \in 1..Len(service_list)
    /\ ci = 1
    /\ cipher_list \in BoundedLists
    /\ found = [s \in Services |-> "none"]
    /\ fw = 1
    /\ handles = 1
    /\ set_ciphers_list \in BoundedLists
    /\ results_list \in {<<>>, <<"ciphers_set">>, <<"ciphers_not_set">>}
    /\ status = "none"
    /\ config = [s \in Services |-> Range(set_ciphers_list)]
    /\ initial = config
    /\ ops = <<>>
    /\ attempts = 0
    /\ failures = 0
    /\ rejects = 0
    /\ error = NoError
    /\ exitCode = -1

SpecCompare == InitCompare /\ [][CompareCiphers]_vars

(* ------------------------------- claims ------------------------------- *)
IsSubset(D, C) == \A i \in 1..Len(D) : \E j \in 1..Len(C) : C[j] = D[i]

\* C1: for every desired list D and configured list C, compare_ciphers
\* yields 'ciphers_set' exactly when every cipher of D occurs in C and
\* 'ciphers_not_set' otherwise, and appends exactly that one status to
\* results_list.
C1_CompareIffSubset ==
    [][pc = "compare_ciphers" =>
         /\ (status' = "ciphers_set") <=> IsSubset(cipher_list, set_ciphers_list)
         /\ (status' = "ciphers_not_set") <=> ~IsSubset(cipher_list, set_ciphers_list)
         /\ results_list' = results_list \o <<status'>>]_vars

\* compare_ciphers has returned 'ciphers_not_set' for a D that overlaps C
C1_Witness ==
    /\ pc # "compare_ciphers"
    /\ status = "ciphers_not_set"
    /\ Len(results_list) = 2
    /\ results_list[2] = "ciphers_not_set"
    /\ \E i \in 1..Len(cipher_list) : cipher_list[i] \in Range(set_ciphers_list)

Running == pc \notin {"done", "aborted", "exited"}

(* ----------------------- reading the device log ----------------------- *)
Issued(name) == \E i \in 1..Len(ops) : ops[i].op = name

OpsNamed(name) == SelectSeq(ops, LAMBDA o : o.op = name)

\* the ciphers written to a service's subtree, in the order of the writes
Writes(s) ==
    LET w == SelectSeq(ops, LAMBDA o : o.op = "set" /\ o.svc = s)
    IN  [i \in 1..Len(w) |-> w[i].arg]

\* the services named by the service restarts, in order
ServiceRestarts ==
    LET r == OpsNamed("restart_service") IN [i \in 1..Len(r) |-> r[i].svc]

Finished == pc \in {"done", "exited"}

SomeNotSet == \E s \in Services : found[s] = "ciphers_not_set"

\* C2: the system restart is issued only in a run that found a service
\* 'ciphers_not_set', never when both were found 'ciphers_set', and a run
\* that gets through its service loop and found one 'ciphers_not_set' does
\* issue it.
C2_RestartIffNotSet ==
    /\ (Issued("restart_system") \/ pc = "restart_system") => SomeNotSet
    /\ (\A s \in Services : found[s] = "ciphers_set") =>
           ~Issued("restart_system") /\ pc \notin {"restart_system", "exited"}
    /\ Finished => (Issued("restart_system") <=> SomeNotSet)

\* a finished run that remediated mgmt only and issued the system restart
C2_Witness ==
    /\ pc = "done"
    /\ found["mgmt"] = "ciphers_not_set"
    /\ found["ha"] = "ciphers_set"
    /\ Issued("restart_system")

\* set_ciphers has returned for service s
SetCiphersReturned(s) ==
    /\ found[s] = "ciphers_not_set"
    /\ ~(Service = s /\ pc = "set_ciphers")
    /\ ~(Service = s /\ pc = "aborted" /\ error.at = "set_ciphers")

IsPrefix(p, q) == Len(p) <= Len(q) /\ \A i \in 1..Len(p) : p[i] = q[i]

\* C3: for a service found 'ciphers_not_set' the writes to its subtree are
\* the desired list itself, one write per cipher (8 with the fixed policy),
\* whatever part of the list the service already had; no other service is
\* written.
C3_OneWritePerCipher ==
    \A s \in Services :
       /\ IsPrefix(Writes(s), cipher_list)
       /\ found[s] # "ciphers_not_set" => Writes(s) = <<>>
       /\ SetCiphersReturned(s) =>
            /\ Writes(s) = cipher_list
            /\ Len(Writes(s)) = 8

\* set_ciphers returned for a service that already had some desired ciphers,
\* and those were written again
C3_Witness ==
    \E s \in Services :
       /\ SetCiphersReturned(s)
       /\ \E i \in 1..Len(ops) :
            ops[i].op = "set" /\ ops[i].svc = s /\ ops[i].arg \in initial[s]

Missing(s) == Range(cipher_list) \ initial[s]

Scenario2 == Cardinality(Missing("mgmt")) = 2 /\ Missing("ha") = {}

Scenario2Rest ==
    /\ Writes("ha") = <<>>
    /\ Len(OpsNamed("commit")) = 1
    /\ ServiceRestarts = <<"mgmt">>
    /\ \E i \in 1..Len(ops) :
         /\ ops[i].op = "restart_service"
         /\ i + 2 <= Len(ops)
         /\ ops[i + 2].op = "connect" /\ ops[i + 2].res = "ok"
    /\ Issued("restart_system")

\* C4 as stated: in scenario 2 a finished run has written 2 ciphers
C4_Original ==
    (Scenario2 /\ Finished) => (Len(Writes("mgmt")) = 2 /\ Scenario2Rest)

\* C4: with mgmt missing 2 desired ciphers and ha complete, a finished run
\* has written all 8 desired ciphers (2 of them new) to mgmt only, with one
\* commit, one service restart (mgmt), a successful recovery poll and the
\* system restart issued.
C4_Scenario2 ==
    (Scenario2 /\ Finished) =>
        /\ Writes("mgmt") = cipher_list
        /\ Len(Writes("mgmt")) = 8
        /\ Cardinality(Range(Writes("mgmt")) \ initial["mgmt"]) = 2
        /\ Scenario2Rest

\* scenario 2 ran to its end
C4_Witness == Scenario2 /\ pc = "done" /\ rejects = 0

Scenario1 == \A s \in Services : Missing(s) = {}

\* C5: with both services holding all 8 desired ciphers the run only reads:
\* no write, commit, service restart, recovery poll or system restart, and
\* unless a read or the first connection fails it ends in DONE.
C5_Scenario1 ==
    Scenario1 =>
        /\ \A i \in 1..Len(ops) :
             \/ ops[i].op = "get"
             \/ i = 1 /\ ops[i].op = "connect"
        /\ pc \notin {"set_ciphers", "commit_config", "restart_service",
                      "check_device_up", "connecting", "restart_system", "exited"}
        /\ pc = "aborted" => error.at \in {"get_fw_connection", "check_ciphers"}
        /\ pc = "done" => exitCode = 0 /\ Len(ops) = 3

\* scenario 1 ended in DONE, on a device that also has a cipher outside
\* the policy
C5_Witness ==
    /\ Scenario1
    /\ pc = "done"
    /\ OtherCipher \in initial["mgmt"]
    /\ found = [s \in Services |-> "ciphers_set"]

\* the operations of the recovery poll in progress or last run: everything
\* after the last service restart
PollOps ==
    LET idx == {i \in 1..Len(ops) : ops[i].op = "restart_service"}
        last == CHOOSE i \in idx : \A j \in idx : j <= i
    IN  IF idx = {} THEN <<>> ELSE SubSeq(ops, last + 1, Len(ops))

PollSleeps == Len(SelectSeq(PollOps, LAMBDA o : o.op = "sleep"))

\* check_device_up has stopped, by returning or by raising
PollStopped == attempts > 0 /\ pc # "connecting"

\* C6: a recovery poll whose first N connection attempts fail stops only
\* after N+1 attempts, having slept once before the first attempt and once
\* after each failure, and it stops by returning the handle of the
\* successful attempt.
C6_PollAttempts ==
    (PollStopped /\ \A i \in 1..Len(PollOps) : PollOps[i].res # "OtherError") =>
        /\ attempts = failures + 1
        /\ PollSleeps = failures + 1
        /\ error.at # "check_device_up"
        /\ fw = handles

LastOp == ops[Len(ops)]

SystemRestartThrew ==
    ops # <<>> /\ LastOp.op = "restart_system" /\ LastOp.res = "raise"

\* C7 as stated: a throwing system restart ends the process with a failure
\* exit status
C7_Original ==
    SystemRestartThrew => (pc = "exited" /\ exitCode # 0 /\ error = NoError)

\* C7: when the final system-restart call throws, the process terminates
\* at once through sys.exit() with no argument, that is with exit status 0,
\* and no error is surfaced.
C7_ExitOnRestartError ==
    /\ SystemRestartThrew => (pc = "exited" /\ exitCode = 0 /\ error = NoError)
    /\ pc = "exited" => SystemRestartThrew

\* the system restart threw after a remediation
C7_Witness == pc = "exited" /\ SystemRestartThrew /\ SomeNotSet

RaisingStep(name) ==
    CASE name = "set" -> "set_ciphers"
      [] name = "commit" -> "commit_config"
      [] name = "restart_service" -> "restart_service"
      [] OTHER -> "none"

\* C8: an error raised by an add-cipher write, the commit or the service
\* restart is the last thing the run does: the run is aborted there, nothing
\* later is issued (no commit, service restart, poll, operation on the next
\* service or system restart), and the writes the device accepted stay in
\* the configuration.
C8_AbortOnError ==
    /\ \A i \in 1..Len(ops) :
         (ops[i].res = "raise" /\ RaisingStep(ops[i].op) # "none") =>
            /\ i = Len(ops)
            /\ pc = "aborted"
            /\ exitCode = 1
            /\ error.at = RaisingStep(ops[i].op)
            /\ ~Issued("restart_system")
            /\ \A k \in (svc + 1)..Len(service_list) :
                 /\ found[service_list[k]] = "none"
                 /\ \A j \in 1..Len(ops) : ops[j].svc # service_list[k]
    /\ \A i \in 1..Len(ops) :
         (ops[i].op = "set" /\ ops[i].res = "success") =>
            ops[i].arg \in config[ops[i].svc]
    /\ \A s \in Services : initial[s] \subseteq config[s]

\* a commit raised after writes that changed the configuration of mgmt,
\* with ha still to be processed
C8_Witness ==
    /\ pc = "aborted"
    /\ error.at = "commit_config"
    /\ svc = 1
    /\ config["mgmt"] # initial["mgmt"]

\* the calls main makes for a remediated service, by operation name
Pattern ==
    <<"get", "set", "set", "set", "set", "set", "set", "set", "set",
      "commit", "restart_service", "sleep", "connect">>

FirstGet(s) == CHOOSE i \in 1..Len(ops) : ops[i].op = "get" /\ ops[i].svc = s

\* C9: for a service found 'ciphers_not_set' the device sees, in this order
\* and with nothing in between, the audit read, the 8 writes, the commit,
\* the service restart, the grace sleep and the first reconnection attempt;
\* a service is read once; a finished run has gone through all of them.
C9_StepOrder ==
    \A s \in Services :
       /\ Len(SelectSeq(ops, LAMBDA o : o.op = "get" /\ o.svc = s)) <= 1
       /\ found[s] = "none" =>
            \A i \in 1..Len(ops) : ops[i].svc = s => ops[i].op = "get"
       /\ found[s] = "ciphers_not_set" =>
            LET g == FirstGet(s) IN
            /\ ops[g].res = "ok"
            /\ \A k \in 1..Len(Pattern) :
                 g + k - 1 <= Len(ops) =>
                    /\ ops[g + k - 1].op = Pattern[k]
                    /\ ops[g + k - 1].op \in {"set", "restart_service"} =>
                          ops[g + k - 1].svc = s
                    /\ k < Len(Pattern) /\ g + k <= Len(ops) =>
                          ops[g + k - 1].res \in {"ok", "success", "error"}
            /\ Finished =>
                 /\ g + Len(Pattern) - 1 <= Len(ops)
                 /\ ops[g + Len(Pattern) - 1].res = "ok"

\* a finished run that remediated both services
C9_Witness ==
    /\ pc = "done"
    /\ \A s \in Services : found[s] = "ciphers_not_set"

\* C10: a connection error inside check_device_up is caught and followed by
\* a wait and another attempt, and never aborts the run; any other error
\* raised there aborts it.
C10_RetryOnConnectionError ==
    /\ \A i \in 1..Len(PollOps) :
         (PollOps[i].op = "connect" /\ PollOps[i].res = "PanURLError") =>
            /\ i < Len(PollOps)
            /\ PollOps[i + 1].op = "sleep"
    /\ ~(pc = "aborted" /\ error.at = "check_device_up" /\ error.cause = "PanURLError")
    /\ \A i \in 1..Len(PollOps) :
         (PollOps[i].op = "connect" /\ PollOps[i].res = "OtherError") =>
            pc = "aborted" /\ error.at = "check_device_up"

\* service s has been taken to the end of its iteration before position i
\* of the log: read and found 'ciphers_set', or restarted and reconnected
TerminalBefore(s, i) ==
    \/ /\ found[s] = "ciphers_set"
       /\ \E g \in 1..(i - 1) : ops[g].op = "get" /\ ops[g].svc = s /\ ops[g].res = "ok"
    \/ \E c \in 1..(i - 1) :
          /\ ops[c].op = "connect" /\ ops[c].res = "ok"
          /\ \E r \in 1..(c - 1) : ops[r].op = "restart_service" /\ ops[r].svc = s

\* the positions of the log that name service s
OpsOn(s) == {i \in 1..Len(ops) : ops[i].svc = s}

FirstOpOn(s) == CHOOSE i \in OpsOn(s) : \A j \in OpsOn(s) : i <= j

\* C11: mgmt is processed first and ha second: nothing is issued for ha
\* (read, write, restart, nor the commit of its remediation) before mgmt was
\* found set or was restarted and reconnected, nothing is issued for mgmt
\* afterwards, and the system restart is issued at most once, as the last
\* operation, after both services got that far.
C11_StrictSequence ==
    /\ (\E i \in 1..Len(ops) : ops[i].svc = "ha") =>
          LET first == CHOOSE i \in 1..Len(ops) :
                          ops[i].svc = "ha" /\ \A j \in 1..(i - 1) : ops[j].svc # "ha"
          IN  /\ TerminalBefore("mgmt", first)
              /\ \A j \in first..Len(ops) :
                    /\ ops[j].svc # "mgmt"
                    /\ ops[j].op = "commit" => found["ha"] = "ciphers_not_set"
    /\ pc \in {"check_ciphers", "compare_ciphers"} /\ svc = 2 =>
          TerminalBefore("mgmt", Len(ops) + 1)
    /\ Len(OpsNamed("restart_system")) <= 1
    /\ Issued("restart_system") =>
          /\ LastOp.op = "restart_system"
          /\ \A s \in Services : TerminalBefore(s, Len(ops))

\* both services were remediated in turn and the system restart was issued
C11_Witness ==
    /\ Issued("restart_system")
    /\ \A s \in Services : found[s] = "ciphers_not_set"
    /\ FirstOpOn("mgmt") < FirstOpOn("ha")

\* some device call of the run raised something other than a refused
\* connection
SomeCallRaised ==
    \E i \in 1..Len(ops) : ops[i].res \in {"raise", "OtherError"}

\* every reconnection attempt of the poll so far was refused
OnlyRefusals ==
    /\ attempts > 0
    /\ failures = attempts
    /\ \A i \in 1..Len(PollOps) :
         PollOps[i].op = "connect" => PollOps[i].res = "PanURLError"

\* C12: a run whose device calls all return, refused reconnections aside, is
\* never ended by an error, so it can only stop in DONE or after the system
\* restart; and a recovery poll that has met nothing but refused connections
\* is still polling (no retry limit, no timeout).
C12_Termination ==
    /\ ~SomeCallRaised => pc # "aborted"
    /\ OnlyRefusals => pc = "connecting"

\* C13: writes to a service's subtree and a service restart naming it are
\* issued only for a service that was itself found 'ciphers_not_set' (it
\* lacked a desired cipher); a service found 'ciphers_set' gets neither,
\* whatever happened to the other service.
C13_ScopedRemediation ==
    \A s \in Services :
       /\ (Writes(s) # <<>> \/ s \in Range(ServiceRestarts)) =>
             found[s] = "ciphers_not_set" /\ Missing(s) # {}
       /\ found[s] = "ciphers_set" =>
             /\ Missing(s) = {}
             /\ \A i \in OpsOn(s) : ops[i].op = "get"

\* mgmt was found set and ha was remediated: writes and restart for ha only
C13_Witness ==
    /\ found["mgmt"] = "ciphers_set"
    /\ found["ha"] = "ciphers_not_set"
    /\ Writes("mgmt") = <<>>
    /\ Writes("ha") = cipher_list
    /\ ServiceRestarts = <<"ha">>

\* C14: the handle is replaced by each successful connection and by nothing
\* else: every operation carries the handle of the most recent successful
\* connection, so what follows a recovery poll (the next service's read and
\* remediation, the system restart) never uses a handle from before it.
C14_HandleReacquired ==
    /\ ops # <<>> => ops[1].fw = 0
    /\ \A i \in 2..Len(ops) :
         IF ops[i - 1].op = "connect" /\ ops[i - 1].res = "ok"
         THEN ops[i].fw = ops[i - 1].fw + 1
         ELSE ops[i].fw = ops[i - 1].fw
    /\ Running => fw = handles

\* after two remediations the system restart went out on the third handle
C14_Witness ==
    /\ Issued("restart_system")
    /\ LastOp.fw = 3
    /\ \E i \in OpsOn("ha") : ops[i].op = "get" /\ ops[i].fw = 2

\* C15: at the end of a run that no error ended and in which the device
\* accepted every write, each service's configuration contains the whole
\* desired list; each service was read exactly once, before its writes.
C15_DesiredConfigured ==
    (Finished /\ rejects = 0) =>
        \A s \in Services :
           /\ Range(cipher_list) \subseteq config[s]
           /\ Len(SelectSeq(ops, LAMBDA o : o.op = "get" /\ o.svc = s)) = 1
           /\ ops[FirstOpOn(s)].op = "get"

\* a clean run that had to complete both services
C15_Witness ==
    /\ Finished
    /\ rejects = 0
    /\ \A s \in Services : Missing(s) # {} /\ config[s] # initial[s]

\* C16: the configuration of a service only grows: it always contains what
\* it held at the start of the run, and outside the desired list it is
\* unchanged.
C16_OnlyAdds ==
    \A s \in Services :
       /\ initial[s] \subseteq config[s]
       /\ config[s] \ Range(cipher_list) = initial[s] \ Range(cipher_list)

\* a service holding a cipher outside the policy was remediated and changed
C16_Witness ==
    \E s \in Services :
       /\ OtherCipher \in initial[s]
       /\ SetCiphersReturned(s)
       /\ config[s] # initial[s]
       /\ OtherCipher \in config[s]

(* --------------------------- consecutive runs -------------------------- *)
\* how many runs of the program follow one another on the same device
MaxRuns == 2

\* the script is started again after a run that ended without a traceback;
\* the device keeps its configuration, the process starts from scratch
StartNextRun ==
    /\ Finished
    /\ Len(runs) + 1 < MaxRuns
    /\ runs' = Append(runs, [clean |-> rejects = 0, remediated |-> SomeNotSet])
    /\ pc' = "get_fw_connection"
    /\ svc' = 1
    /\ ci' = 1
    /\ cipher_list' = DesiredCiphers
    /\ found' = [s \in Services |-> "none"]
    /\ fw' = 0
    /\ handles' = 0
    /\ set_ciphers_list' = <<>>
    /\ results_list' = <<>>
    /\ status' = "none"
    /\ initial' = config
    /\ ops' = <<>>
    /\ attempts' = 0
    /\ failures' = 0
    /\ rejects' = 0
    /\ error' = NoError
    /\ exitCode' = -1
    /\ UNCHANGED config

NextRerun == Next \/ StartNextRun

SpecRerun == Init /\ [][NextRerun]_vars

\* the run in progress follows a run that ended without error and had all
\* its writes accepted
AfterCleanRun == runs # <<>> /\ runs[Len(runs)].clean

\* C17: a run started after a run that finished without error and with every
\* write accepted finds both services 'ciphers_set' and only reads: no write,
\* commit, service restart, recovery poll or system restart.
C17_Idempotent ==
    AfterCleanRun =>
        /\ \A s \in Services : found[s] # "ciphers_not_set"
        /\ \A i \in 1..Len(ops) :
             \/ ops[i].op = "get"
             \/ i = 1 /\ ops[i].op = "connect"
        /\ pc \notin {"set_ciphers", "commit_config", "restart_service",
                      "check_device_up", "connecting", "restart_system", "exited"}
        /\ pc = "done" => \A s \in Services : found[s] = "ciphers_set"

\* the second run ended in DONE after a first run that remediated
C17_Witness ==
    /\ AfterCleanRun
    /\ runs[1].remediated
    /\ pc = "done"
    /\ Len(ops) = 3

(* ------------------------------ bookkeeping --------------------------- *)
NotSetCount == Cardinality({s \in Services : found[s] = "ciphers_not_set"})

AuditedCount == Cardinality({s \in Services : found[s] # "none"})

Commits == Len(OpsNamed("commit"))

Restarts == Len(OpsNamed("restart_service"))

\* recovery polls started: grace sleeps that follow a service restart
Polls ==
    Cardinality({i \in 2..Len(ops) :
                   ops[i].op = "sleep" /\ ops[i - 1].op = "restart_service"})

BeforeDedup == pc \notin {"restart_system", "done", "exited"}

\* C18: until line 265 results_list holds, in order, the one status of each
\* service compared so far (at most 2); commits, service restarts and
\* recovery polls each number the 'ciphers_not_set' entries or one less (the
\* remediation in progress), in that order of progress; a finished run has
\* as many of each as 'ciphers_not_set' entries.
C18_Bookkeeping ==
    /\ BeforeDedup =>
          /\ Len(results_list) = AuditedCount
          /\ Len(results_list) <= 2
          /\ \A k \in 1..Len(results_list) :
                results_list[k] = found[service_list[k]]
    /\ ~BeforeDedup =>
          Range(results_list) = {found[s] : s \in Services}
    /\ Polls <= Restarts
    /\ Restarts <= Commits
    /\ Commits <= NotSetCount
    /\ NotSetCount - 1 <= Polls
    /\ Finished => (Commits = NotSetCount /\ Restarts = NotSetCount /\ Polls = NotSetCount)

\* a finished run with two 'ciphers_not_set' entries and two of everything
C18_Witness ==
    /\ Finished
    /\ NotSetCount = 2
    /\ Commits = 2
    /\ Restarts = 2
    /\ Polls = 2
====
